---- MODULE Spec2Model ----
(***************************************************************************)
(* x_to_telegram: one run of run() polls the timeline of an X account and  *)
(* forwards the new posts to a Telegram channel, persisting the cursor     *)
(* {last_id, user_id} in a Gist after every post.                          *)
(*                                                                         *)
(* The model follows the Gist revision with media support                  *)
(* (src/unnamed/part_001, lines 295-769).  A step of the model is the      *)
(* completion of one awaited external call (Gist, X API, Telegram Bot API) *)
(* together with the synchronous code that follows it up to the next       *)
(* await.  Strings are sequences; a message body is kept as its length and *)
(* the positions of its newline characters, which is all that chunking and *)
(* captioning read.                                                        *)
(***************************************************************************)
EXTENDS Integers, Sequences, FiniteSets, TLC

\* ------------------------------------------------------------------------
\* Program constants
\* ------------------------------------------------------------------------
TELEGRAM_MAX_MESSAGE_LENGTH == 4096
TELEGRAM_CAPTION_MAX_LENGTH == 1024
TELEGRAM_MEDIA_GROUP_MAX_SIZE == 10
X_API_MAX_RESULTS == 100

\* ------------------------------------------------------------------------
\* Bounds of the model
\* ------------------------------------------------------------------------
\* posts the account publishes over the whole behaviour
MaxPosts == 3
\* largest --max-per-run a run is started with
MaxPerRun == 2

\* ------------------------------------------------------------------------
\* Values
\* ------------------------------------------------------------------------
\* null / undefined / "" : all falsy where the code tests them
Null == <<>>
NoUser == ""

Min(a, b) == IF a < b THEN a ELSE b
SetMax(S) == CHOOSE x \in S : \A y \in S : y <= x

\* The k-th post of the account carries a two-digit numeric-string id;
\* ids grow with time ("19", "20", "21", ...).
IdOf(k) == << (k + 18) \div 10, (k + 18) % 10 >>
AllIds == { IdOf(k) : k \in 1..MaxPosts }

\* the configured handle and the account id X resolves it to
Handle == << "n", "a", "s", "a" >>
UserIdOf(username) == IF username = Handle THEN "uid" ELSE "uid2"
\* the handles a run may be configured with: --username defaults to Handle
Handles == { Handle, << "e", "s", "a" >> }

\* a.localeCompare(b) < 0 on digit strings: lexicographic comparison
RECURSIVE LexLess(_, _)
LexLess(a, b) ==
    IF a = <<>> THEN b # <<>>
    ELSE IF b = <<>> THEN FALSE
    ELSE IF Head(a) # Head(b) THEN Head(a) < Head(b)
    ELSE LexLess(Tail(a), Tail(b))

LexLeq(a, b) == a = b \/ LexLess(a, b)

\* the comparator of data.sort (part_001 line 625), as "a goes before b"
IdBefore(a, b) == LexLess(a, b)

\* Array.prototype.sort with that comparator
RECURSIVE InsertSorted(_, _)
InsertSorted(x, s) ==
    IF s = <<>> THEN << x >>
    ELSE IF IdBefore(x, Head(s)) THEN << x >> \o s
    ELSE << Head(s) >> \o InsertSorted(x, Tail(s))

RECURSIVE SortedBy(_)
SortedBy(s) ==
    IF s = <<>> THEN <<>> ELSE InsertSorted(Head(s), SortedBy(Tail(s)))

\* the response left in the order the API listed it
SortTweets_Unsorted(data) == data

\* data.sort((a, b) => a.id.localeCompare(b.id))
SortTweets(data) == SortedBy(data)

\* ------------------------------------------------------------------------
\* The comparators of data.sort in the revisions of fetchNewTweets
\* ------------------------------------------------------------------------
\* BigInt(id) of a string of decimal digits
RECURSIVE BigInt(_)
BigInt(id) ==
    IF id = <<>> THEN 0 ELSE 10 * BigInt(SubSeq(id, 1, Len(id) - 1)) + id[Len(id)]

\* (a, b) => BigInt(a.id) < BigInt(b.id) ? -1 : 1
CompareBigInt(a, b) == IF BigInt(a) < BigInt(b) THEN -1 ELSE 1
\* (a, b) => a.id < b.id ? -1 : (a.id > b.id ? 1 : 0), on strings
CompareRelational(a, b) == IF LexLess(a, b) THEN -1 ELSE IF LexLess(b, a) THEN 1 ELSE 0
\* (a, b) => a.id.localeCompare(b.id), on strings of digits
CompareLocale(a, b) == IF LexLess(a, b) THEN -1 ELSE IF LexLess(b, a) THEN 1 ELSE 0

Revisions == { "BigInt", "relational", "localeCompare" }
Compare(revision, a, b) ==
    IF revision = "BigInt" THEN CompareBigInt(a, b)
    ELSE IF revision = "relational" THEN CompareRelational(a, b)
    ELSE CompareLocale(a, b)

\* Array.prototype.sort with the revision's comparator
RECURSIVE InsertWith(_, _, _)
InsertWith(revision, x, s) ==
    IF s = <<>> THEN << x >>
    ELSE IF Compare(revision, x, Head(s)) < 0 THEN << x >> \o s
    ELSE << Head(s) >> \o InsertWith(revision, x, Tail(s))

RECURSIVE SortWith(_, _)
SortWith(revision, s) ==
    IF s = <<>> THEN <<>> ELSE InsertWith(revision, Head(s), SortWith(revision, Tail(s)))

\* what the revision returns for the page data: the BigInt revision returns
\* data.slice(0, maxPerRun), the others data
SortedPage(revision, data, maxPerRun) ==
    LET sorted == SortWith(revision, data)
    IN  IF revision = "BigInt" THEN SubSeq(sorted, 1, Min(Len(sorted), maxPerRun))
        ELSE sorted

\* ------------------------------------------------------------------------
\* Texts: [len, nl] = length in UTF-16 units and the indices of its '\n'
\* ------------------------------------------------------------------------
Concat(a, b) == [ len |-> a.len + b.len, nl |-> a.nl \cup { a.len + p : p \in b.nl } ]

\* '\n\n🎬 Watch the full video via the Source link below 👇'
VideoNotice == [ len |-> 54, nl |-> {0, 1} ]
\* '\n\n🔗 Source:\n' followed by https://x.com/<username>/status/<id>
SourceLink(username, id) ==
    [ len |-> 13 + 14 + Len(username) + 8 + Len(id), nl |-> {0, 1, 12} ]

\* extractTweetText replaces every run of whitespace, newlines included,
\* by one space: its result has the given length and no newline.
ExtractedText(tweet) == [ len |-> tweet.textLen, nl |-> {} ]

buildMessage(username, tweet, hasVideoPreview) ==
    LET tweetText == ExtractedText(tweet)
        withNotice == IF hasVideoPreview THEN Concat(tweetText, VideoNotice)
                      ELSE tweetText
    IN  Concat(withNotice, SourceLink(username, tweet.id))

\* ------------------------------------------------------------------------
\* Strings as sequences of characters, for extractTweetText
\* ------------------------------------------------------------------------
\* the characters \s matches, of those the texts are made of
IsSpace(c) == c \in { " ", "\n" }

\* String.prototype.trim
RECURSIVE TrimStart(_)
TrimStart(str) ==
    IF str # <<>> /\ IsSpace(Head(str)) THEN TrimStart(Tail(str)) ELSE str
RECURSIVE TrimEnd(_)
TrimEnd(str) ==
    IF str # <<>> /\ IsSpace(str[Len(str)]) THEN TrimEnd(SubSeq(str, 1, Len(str) - 1)) ELSE str
Trim(str) == TrimEnd(TrimStart(str))

StartsWith(str, pattern) ==
    Len(pattern) <= Len(str) /\ SubSeq(str, 1, Len(pattern)) = pattern

\* text.replace(pattern, ''): the first occurrence only
RECURSIVE ReplaceAll_First(_, _)
ReplaceAll_First(text, pattern) ==
    IF text = <<>> THEN <<>>
    ELSE IF StartsWith(text, pattern) THEN SubSeq(text, Len(pattern) + 1, Len(text))
    ELSE << Head(text) >> \o ReplaceAll_First(Tail(text), pattern)

\* text.replaceAll(pattern, '') for a non-empty pattern: the occurrences found
\* in one scan from the left, each search resuming after the last match
RECURSIVE ReplaceAll(_, _)
ReplaceAll(text, pattern) ==
    IF text = <<>> THEN <<>>
    ELSE IF StartsWith(text, pattern)
    THEN ReplaceAll(SubSeq(text, Len(pattern) + 1, Len(text)), pattern)
    ELSE << Head(text) >> \o ReplaceAll(Tail(text), pattern)

\* the for loop over entities.urls, from the i-th url on
RECURSIVE RemoveUrls(_, _, _)
RemoveUrls(text, urls, i) ==
    IF i > Len(urls) THEN text
    ELSE IF urls[i] # <<>>                      \* if (url.url)
    THEN RemoveUrls(ReplaceAll(text, urls[i]), urls, i + 1)
    ELSE RemoveUrls(text, urls, i + 1)

\* text.replace(/\s+/g, ' ')
RECURSIVE CollapseSpaces(_)
CollapseSpaces(text) ==
    IF text = <<>> THEN <<>>
    ELSE IF IsSpace(Head(text)) THEN << " " >> \o CollapseSpaces(TrimStart(text))
    ELSE << Head(text) >> \o CollapseSpaces(Tail(text))

\* text.replace(/\n\s+\n/g, '\n\n'): a newline, the longest run of whitespace
\* after it that still ends in a newline, replaced by two newlines
RECURSIVE CollapseBlankLines(_)
CollapseBlankLines(text) ==
    IF text = <<>> THEN <<>>
    ELSE LET run == Len(text) - Len(TrimStart(text))
             ends == { j \in 3..run : text[j] = "\n" }
         IN  IF Head(text) = "\n" /\ ends # {}
             THEN << "\n", "\n" >> \o CollapseBlankLines(SubSeq(text, SetMax(ends) + 1, Len(text)))
             ELSE << Head(text) >> \o CollapseBlankLines(Tail(text))

\* tweet.text is the text of the post (no note_tweet), tweet.urls the url
\* fields of entities.urls ("" for an entry without one)
extractTweetText(tweet) ==
    LET text == RemoveUrls(Trim(tweet.text), tweet.urls, 1)
    IN  Trim(CollapseBlankLines(CollapseSpaces(text)))

\* ------------------------------------------------------------------------
\* Media: includes.media of the response, and the items handed to Telegram
\* ------------------------------------------------------------------------
\* a url or preview_image_url the object does not carry
NoUrl == ""
\* mediaMap.get(key) for a key the pool does not hold
Undefined == [ media_key |-> 0, type |-> "undefined", url |-> NoUrl, preview_image_url |-> NoUrl ]

\* new Map(mediaData.map(m => [m.media_key, m])).get(key): the last entry wins
MediaMapGet(mediaData, key) ==
    LET at == { i \in 1..Len(mediaData) : mediaData[i].media_key = key }
    IN  IF at = {} THEN Undefined ELSE mediaData[SetMax(at)]

\* a filter that asks no preview image of a video
MediaFilter_AnyVideo(media) ==
    /\ media # Undefined
    /\ \/ media.type = "photo" /\ media.url # NoUrl
       \/ media.type = "video"

\* the filter callback of extractMedia
MediaFilter(media) ==
    /\ media # Undefined
    /\ \/ media.type = "photo" /\ media.url # NoUrl
       \/ media.type = "video" /\ media.preview_image_url # NoUrl

extractMedia(tweet, mediaData) ==
    LET mediaKeys == tweet.media_keys
        found == [ i \in 1..Len(mediaKeys) |-> MediaMapGet(mediaData, mediaKeys[i]) ]
        kept == SelectSeq(found, MediaFilter)
    IN  IF Len(mediaKeys) = 0 \/ Len(mediaData) = 0 THEN <<>>
        ELSE [ i \in 1..Len(kept) |->
                 [ type |-> IF kept[i].type = "video" THEN "photo" ELSE kept[i].type,
                   url |-> IF kept[i].type = "video" THEN kept[i].preview_image_url
                           ELSE kept[i].url,
                   isVideoPreview |-> kept[i].type = "video" ] ]

\* a test of the first item only
HasVideoPreview_First(media) == Len(media) > 0 /\ media[1].isVideoPreview

\* media.some(m => m.isVideoPreview), processTweets line 671
HasVideoPreview(media) == \E i \in 1..Len(media) : media[i].isVideoPreview

\* a search that finds no newline
LastNewline_None(text, from) == -1

\* text.lastIndexOf('\n', from)
LastNewline(text, from) ==
    LET cand == { p \in text.nl : p <= from }
    IN  IF cand = {} THEN -1 ELSE SetMax(cand)

\* the while loop of chunkTelegramMessage, entered with `let start = from`;
\* loop[start] is what it pushes from there on, a chunk being
\* text.substring(from, to)
ChunkLoop(text, from, chunkSize) ==
    LET loop[start \in 0..text.len] ==
            IF ~(start < text.len) THEN <<>>
            ELSE LET end == Min(start + chunkSize, text.len)
                     found == LastNewline(text, end)
                     splitAt == IF found = -1 \/ found <= start THEN end ELSE found
                 IN  << [ from |-> start, to |-> splitAt ] >>
                     \o loop[IF splitAt = end THEN end ELSE splitAt + 1]
    IN  loop[from]

chunkTelegramMessage(text, chunkSize) ==
    IF text.len <= chunkSize THEN << [ from |-> 0, to |-> text.len ] >>
    ELSE ChunkLoop(text, 0, chunkSize)

\* '...'.length
ELLIPSIS_LENGTH == 3

\* the ellipsis appended to a prefix that already fills the caption
generateCaption_NoReserve(message) ==
    IF message.len <= TELEGRAM_CAPTION_MAX_LENGTH
    THEN [ cut |-> message.len, dots |-> FALSE ]
    ELSE [ cut |-> TELEGRAM_CAPTION_MAX_LENGTH, dots |-> TRUE ]

\* generateCaption: the caption is the body's prefix of length cut, followed
\* by '...' when dots is TRUE
generateCaption(message) ==
    IF message.len <= TELEGRAM_CAPTION_MAX_LENGTH
    THEN [ cut |-> message.len, dots |-> FALSE ]
    ELSE [ cut |-> TELEGRAM_CAPTION_MAX_LENGTH - 3, dots |-> TRUE ]

\* caption.length
CaptionLength(caption) == caption.cut + (IF caption.dots THEN ELLIPSIS_LENGTH ELSE 0)

\* ------------------------------------------------------------------------
\* Inputs
\* ------------------------------------------------------------------------
\* lengths of the extracted text of a post: short, longer than a caption,
\* longer than one Telegram message
TextLens == { 100, 1100, 4500 }
\* number of media items extractMedia selects for a post
MediaCounts == { 0, 1, 2, 11 }

\* command-line arguments of a run
TimelineArgs ==
    [ username : { Handle }, tweetId : { Null }, dryRun : BOOLEAN, maxPerRun : 1..MaxPerRun ]
SpecificArgs ==
    [ username : { Handle }, tweetId : AllIds, dryRun : BOOLEAN, maxPerRun : { MaxPerRun } ]
AllArgs == TimelineArgs \cup SpecificArgs

NoArgs == [ username |-> Handle, tweetId |-> Null, dryRun |-> FALSE, maxPerRun |-> 1 ]
NoState == [ last_id |-> Null, user_id |-> NoUser ]
NoText == [ len |-> 0, nl |-> {} ]
\* an exception: where it was thrown, whether one of the fields run's catch
\* reads (code, statusCode, response.status, data.status) is 429, and the
\* error_code of a GrammyError (0 when the error has none)
NoErr == [ at |-> "none", s429 |-> FALSE, error_code |-> 0 ]

\* statuses the Bot API rejects a call with
TelegramStatuses == { 400, 429 }

\* ------------------------------------------------------------------------
\* Arguments of the pure functions, for the properties stated of them alone
\* ------------------------------------------------------------------------
\* longest body chunkTelegramMessage is applied to, and largest chunkSize
MaxTextLen == 6
MaxChunkSize == 3
\* generateCaption is applied to bodies this close to the caption limit
MaxCaptionSlack == 4

Texts(lens) == UNION { { [ len |-> n, nl |-> N ] : N \in SUBSET (0..(n - 1)) } : n \in lens }

NoPure == [ fn |-> "none", text |-> NoText, chunkSize |-> 0, done |-> FALSE, result |-> <<>> ]

ChunkInputs ==
    { [ fn |-> "chunkTelegramMessage", text |-> t, chunkSize |-> L, done |-> FALSE, result |-> <<>> ] :
        t \in Texts(0..MaxTextLen), L \in 1..MaxChunkSize }

CaptionInputs ==
    { [ fn |-> "generateCaption", text |-> [ len |-> n, nl |-> {} ], chunkSize |-> 0,
        done |-> FALSE, result |-> <<>> ] :
        n \in { 0, 1 } \cup ((TELEGRAM_CAPTION_MAX_LENGTH - MaxCaptionSlack)
                               ..(TELEGRAM_CAPTION_MAX_LENGTH + MaxCaptionSlack)) }

\* extractMedia is applied to posts with up to MaxMediaKeys media keys, some
\* of them not in the pool, and to pools of up to two objects with distinct keys
MaxMediaKeys == 2
PoolKeys == { 1, 2 }
MediaObjects ==
    [ media_key : PoolKeys, type : { "photo", "video", "animated_gif" },
      url : { NoUrl, "https://pbs.twimg.com/media/a.jpg" },
      preview_image_url : { NoUrl, "https://pbs.twimg.com/thumb/a.jpg" } ]
MediaPools ==
    { <<>> } \cup { << m >> : m \in MediaObjects }
    \cup { mn \in MediaObjects \X MediaObjects : mn[1].media_key # mn[2].media_key }
MediaKeyLists ==
    UNION { [ 1..n -> PoolKeys \cup { 3 } ] : n \in 0..MaxMediaKeys }

MediaInputs ==
    { [ fn |-> "extractMedia", tweet |-> [ media_keys |-> k ], mediaData |-> d,
        done |-> FALSE, result |-> <<>> ] :
        k \in MediaKeyLists, d \in MediaPools }

\* processTweets builds the body of a post from its text and its media
MessageInputs ==
    { [ fn |-> "buildMessage", username |-> u,
        tweet |-> [ id |-> i, textLen |-> n, media_keys |-> k ], mediaData |-> d,
        done |-> FALSE, result |-> NoText ] :
        u \in { Handle, << "x" >> }, i \in { IdOf(1), IdOf(MaxPosts) }, n \in { 0, 7 },
        k \in MediaKeyLists, d \in MediaPools }

\* extractTweetText is applied to texts of up to MaxTweetLen characters with
\* spaces and newlines, and to up to two urls of one or two characters
MaxTweetLen == 4
TweetTexts == UNION { [ 1..n -> { "a", "b", " ", "\n" } ] : n \in 0..MaxTweetLen }
UrlStrings == UNION { [ 1..n -> { "a", "b" } ] : n \in 0..2 }
UrlLists == UNION { [ 1..n -> UrlStrings ] : n \in 0..2 }
TweetTextInputs ==
    { [ fn |-> "extractTweetText", tweet |-> [ text |-> t, urls |-> u ],
        done |-> FALSE, result |-> <<>> ] : t \in TweetTexts, u \in UrlLists }

\* the rateLimit of an X API response: absent, or { limit, remaining, reset }
NoRateLimit == [ present |-> FALSE, limit |-> 0, remaining |-> 0 ]
RateLimitInfos ==
    { NoRateLimit } \cup [ present : { TRUE }, limit : { 15 }, remaining : { 0, 1 } ]

\* processes running run() side by side, before any is started; overlapped
\* and regressed are history: the process was started while one was under
\* way, and it has replaced last_id by a smaller one
Procs == { 1, 2 }
NoProc == [ pc |-> "idle", state |-> NoState, userId |-> NoUser, tweets |-> <<>>, idx |-> 0,
            overlapped |-> FALSE, regressed |-> FALSE ]

\* the local-file script before it is started. file is the last_id in the
\* state file (Null when there is none), lastId the local of runOnce;
\* delivered counts the posts sent in the cycle, loadFailed and saveFailedAt
\* (index of the post, 0 for none) tell which state accesses of the cycle
\* failed, result how the last cycle ended
NoLocal == [ pc |-> "main", once |-> FALSE, dryRun |-> FALSE, file |-> Null, lastId |-> Null,
             tweets |-> <<>>, idx |-> 0, delivered |-> 0, loadFailed |-> FALSE,
             saveFailedAt |-> 0, result |-> "none" ]

VARIABLES
    timeline,   \* number of posts the account has published
    gist,       \* state.json in the Gist: [last_id, user_id]
    pc,         \* the call the run is awaiting; "idle" between runs, "main" at its start
    args,       \* run(args)
    state,      \* const state = await loadState()
    userId,     \* const userId
    tweets,     \* the fetched tweets, as sorted by fetchNewTweets
    idx,        \* position of processTweets' loop in tweets
    message,    \* msg of the tweet being processed
    media,      \* media.length of the tweet being processed
    phase,      \* which sendTextMessageChunked call is running
    chunks,     \* const chunks of the running sendTextMessageChunked
    part,       \* index of the chunk being sent
    err,        \* the last exception thrown in the run
    outcome,    \* how the last run ended
    calls,      \* history: Bot API calls made for the tweet being processed
    order,      \* history: ids sent to the channel by this run, in order
    sentBy,     \* history: per id, the number of runs that sent it (up to 2)
    startGist,  \* history: the Gist content when the run started
    quiet,      \* history: no post was published since the last timeline fetch
    fetchedQuiet, \* history: this run's fetch found quiet set
    specificUsed, \* history: some run so far was given --tweet-id
    lookedUp,   \* history: getUserId has returned an id in some run
    procs,      \* the processes of the overlapping runs
    loc,        \* the process of the local-file script x_to_telegram.js and its state file
    rateLimit,  \* history: the rateLimit logRateLimit was last given, until the next call returns
    pure        \* a call of a pure function on its own: arguments and result

vars == << timeline, gist, pc, args, state, userId, tweets, idx, message, media,
           phase, chunks, part, err, outcome, calls, order, sentBy, startGist, quiet,
           fetchedQuiet, specificUsed, lookedUp, rateLimit, procs, loc, pure >>

runVars == << args, state, userId, tweets, idx >>
sendVars == << message, media, phase, chunks, part >>
histVars == << calls, order, sentBy, startGist, quiet, fetchedQuiet, specificUsed, lookedUp,
              rateLimit >>

\* no process has been started
InitProcess ==
    /\ pc = "idle"
    /\ args = NoArgs
    /\ state = NoState
    /\ userId = NoUser
    /\ tweets = <<>>
    /\ idx = 0
    /\ message = NoText
    /\ media = 0
    /\ phase = "none"
    /\ chunks = <<>>
    /\ part = 0
    /\ err = NoErr
    /\ outcome = "none"
    /\ calls = <<>>
    /\ order = <<>>
    /\ sentBy = [ i \in AllIds |-> 0 ]
    /\ startGist = NoState
    /\ quiet = FALSE
    /\ fetchedQuiet = FALSE
    /\ specificUsed = FALSE
    /\ lookedUp = FALSE
    /\ rateLimit = NoRateLimit
    /\ procs = [ p \in Procs |-> NoProc ]
    /\ loc = NoLocal

\* no run has started: the account has no post and the Gist holds an empty state
InitRun ==
    /\ timeline = 0
    /\ gist = NoState
    /\ InitProcess

Init ==
    /\ InitRun
    /\ pure = NoPure

\* ------------------------------------------------------------------------
\* The X API (twitter-api-v2 client)
\* ------------------------------------------------------------------------
IndexOf(id) == CHOOSE k \in 1..MaxPosts : IdOf(k) = id

\* posts more recent than since_id (all posts when since_id is not given)
NewerThan(sinceId) ==
    { k \in 1..timeline : sinceId = Null \/ k > IndexOf(sinceId) }

\* since_id dropped from the request
SinceIdParam_Omitted(sinceId) == Null

\* since_id: sinceId || undefined
SinceIdParam(sinceId) == sinceId

\* first page of userTimeline: the max_results most recent of them
TimelinePage(sinceId, maxPerRun) ==
    { k \in NewerThan(sinceId) : k > timeline - Min(X_API_MAX_RESULTS, maxPerRun) }

\* the orders in which a response may list a set of ids
Orderings(S) ==
    { s \in [ 1..Cardinality(S) -> S ] : \A i, j \in 1..Cardinality(S) : i # j => s[i] # s[j] }

\* ------------------------------------------------------------------------
\* Steps shared by the actions
\* ------------------------------------------------------------------------
Finish(result) ==
    /\ pc' = "idle"
    /\ outcome' = result
    /\ message' = NoText
    /\ media' = 0
    /\ phase' = "none"
    /\ chunks' = <<>>
    /\ part' = 0

\* the counters taken for a rate limit when no request remains
QuotaExhausted_AtZero(info) == info.present /\ info.remaining = 0

\* logRateLimit only logs the counters: whatever they are it returns normally,
\* and the caller goes on
QuotaExhausted(info) == FALSE

\* the fetch run() issues: line 701
FetchCall == IF args.tweetId # Null THEN "singleTweet" ELSE "userTimeline"

\* lines 708-715, after either fetch has returned ts
AfterFetch(ts) ==
    /\ tweets' = ts
    /\ IF Len(ts) = 0
       THEN /\ Finish("no_new_tweets")
            /\ idx' = 0
       ELSE /\ pc' = "processTweets"
            /\ idx' = 1
            /\ UNCHANGED << outcome, sendVars >>

\* what a Bot API call carries besides the chunk: the caption (sendPhoto, and
\* the first item of a group) and the number of media items
CaptionOf(method) ==
    IF method = "sendMessage" THEN [ cut |-> 0, dots |-> FALSE ] ELSE generateCaption(message)
\* the group built from media without slice
ItemsOf_All(method) ==
    IF method = "sendMediaGroup" THEN media ELSE IF method = "sendPhoto" THEN 1 ELSE 0

ItemsOf(method) ==
    IF method = "sendMediaGroup" THEN Min(media, TELEGRAM_MEDIA_GROUP_MAX_SIZE)
    ELSE IF method = "sendPhoto" THEN 1 ELSE 0

\* the items of the call that carry the caption; in a group,
\* caption: idx === 0 ? generateCaption(message) : undefined
CaptionedItems(method) ==
    IF method = "sendMediaGroup" THEN { i \in 1..ItemsOf(method) : i - 1 = 0 }
    ELSE IF method = "sendPhoto" THEN { 1 } ELSE {}

\* one Bot API call for the current tweet, answered ok or not
Record(method, p, ok) ==
    /\ calls' = Append(calls, [ method |-> method, part |-> p, phase |-> phase, ok |-> ok,
                                caption |-> CaptionOf(method), items |-> ItemsOf(method),
                                captioned |-> CaptionedItems(method) ])
    /\ IF ok /\ \A i \in 1..Len(order) : order[i] # tweets[idx]
       THEN /\ order' = Append(order, tweets[idx])
            /\ sentBy' = [ sentBy EXCEPT ![tweets[idx]] = Min(2, @ + 1) ]
       ELSE UNCHANGED << order, sentBy >>
    /\ UNCHANGED << startGist, quiet, fetchedQuiet, specificUsed, lookedUp, rateLimit >>

\* the cursor written once after the batch: the id of the last fetched tweet
SavedLastId_Batch == tweets[Len(tweets)]

\* tweet.id in saveState(tweet.id, userId), line 675
SavedLastId == tweets[idx]

\* a test that reads a field the error does not carry
Has429Status_Never(e) == FALSE

\* a test that also reads the error_code of a GrammyError
Has429Status_AnyStatus(e) == e.s429 \/ e.error_code = 429

\* every error taken for a rate limit
Has429Status_Always(e) == TRUE

\* e.code === 429 || e.statusCode === 429 || e.response?.status === 429 || e.data?.status === 429
Has429Status(e) == e.s429

\* catch (e) of run, lines 718-738: synchronous, so part of the step in which
\* the awaited call rejected
Catch(e) ==
    LET has429Status == Has429Status(e)
    IN  IF has429Status THEN Finish("rate_limited") ELSE Finish("fatal")

\* an exception thrown inside run's try block travels to its catch
Throw(where, status429) ==
    LET e == [ at |-> where, s429 |-> status429, error_code |-> 0 ]
    IN  err' = e /\ Catch(e)

\* a GrammyError leaves sendToTelegram: it has error_code and description,
\* and none of the fields run's catch reads
ThrowTelegram(status) ==
    LET e == [ at |-> "deliver", s429 |-> FALSE, error_code |-> status ]
    IN  err' = e /\ Catch(e)

\* the media error rethrown instead of handled
Fallback_Rethrow == Throw("deliver", FALSE)

\* catch (e) of sendToTelegram, line 522: fall back to text only
Fallback ==
    /\ pc' = "sendMessage"
    /\ phase' = "fallback"
    /\ chunks' = chunkTelegramMessage(message, TELEGRAM_MAX_MESSAGE_LENGTH)
    /\ part' = 1
    /\ UNCHANGED << message, media, err, outcome >>

\* chunkTelegramMessage(message) of the tweet being processed
Chunks == chunkTelegramMessage(message, TELEGRAM_MAX_MESSAGE_LENGTH)

\* ------------------------------------------------------------------------
\* The account
\* ------------------------------------------------------------------------
Publish ==
    /\ timeline < MaxPosts
    /\ timeline' = timeline + 1
    /\ quiet' = FALSE
    /\ UNCHANGED << pure, procs, loc, gist, pc, runVars, sendVars, err, outcome, calls, order, sentBy,
                    startGist, fetchedQuiet, specificUsed, lookedUp, rateLimit >>

\* ------------------------------------------------------------------------
\* run(args)
\* ------------------------------------------------------------------------
\* the script is started: a new process, with nothing left of the last one
Launch ==
    /\ pc = "idle"
    /\ pc' = "main"
    /\ args' = NoArgs
    /\ state' = NoState
    /\ userId' = NoUser
    /\ tweets' = <<>>
    /\ idx' = 0
    /\ err' = NoErr
    /\ outcome' = "running"
    /\ calls' = <<>>
    /\ order' = <<>>
    /\ startGist' = gist
    /\ fetchedQuiet' = FALSE
    /\ rateLimit' = NoRateLimit
    /\ UNCHANGED << pure, procs, loc, timeline, gist, sendVars, sentBy, quiet, specificUsed, lookedUp >>

\* main parses the command line and calls run(argv), which runs up to
\* its first await
RunStart(Args) ==
    /\ pc = "main"
    /\ \E a \in Args :
          /\ args' = a
          /\ specificUsed' = (specificUsed \/ a.tweetId # Null)
    /\ pc' = "loadState"      \* TELEGRAM_BOT_TOKEN and TELEGRAM_CHAT_ID are set
    /\ UNCHANGED << pure, procs, loc, timeline, gist, state, userId, tweets, idx, sendVars, err, outcome,
                    calls, order, sentBy, startGist, quiet, fetchedQuiet, lookedUp, rateLimit >>

\* the cached id not looked at
CachedUserId_Ignored(st) == NoUser

\* state.user_id, tested by getUserIdWithCache at line 654
CachedUserId(st) == st.user_id

\* loadState resolves; getUserIdWithCache runs up to its first await
LoadStateOk ==
    /\ pc = "loadState"
    /\ state' = gist
    /\ IF CachedUserId(gist) # NoUser
       THEN /\ userId' = gist.user_id
            /\ pc' = FetchCall
       ELSE /\ userId' = userId
            /\ pc' = "getUserId"
    /\ UNCHANGED << pure, procs, loc, timeline, gist, args, tweets, idx, sendVars, err, outcome, histVars >>

\* loadState rethrows, outside run's try block
LoadStateFail ==
    /\ pc = "loadState"
    /\ err' = [ at |-> "loadState", s429 |-> FALSE, error_code |-> 0 ]
    /\ Finish("fatal")
    /\ UNCHANGED << pure, procs, loc, timeline, gist, runVars, histVars >>

\* userByUsername resolves with user.data; logRateLimit, then the id is returned
GetUserIdOk ==
    /\ pc = "getUserId"
    /\ \E info \in RateLimitInfos :
          /\ rateLimit' = info
          /\ IF QuotaExhausted(info)
             THEN /\ Throw("getUserId", TRUE)
                  /\ UNCHANGED << userId, lookedUp >>
             ELSE /\ userId' = UserIdOf(args.username)
                  /\ pc' = "saveUserId"
                  /\ lookedUp' = TRUE
                  /\ UNCHANGED << sendVars, err, outcome >>
    /\ UNCHANGED << pure, procs, loc, timeline, gist, args, state, tweets, idx,
                    calls, order, sentBy, startGist, quiet, fetchedQuiet, specificUsed >>

\* user.data is missing: getUserId throws a plain Error
GetUserIdNotFound ==
    /\ pc = "getUserId"
    /\ Throw("getUserId", FALSE)
    /\ UNCHANGED << pure, procs, loc, timeline, gist, runVars, histVars >>

\* userByUsername rejects, with status 429 or another one
GetUserIdFail ==
    /\ pc = "getUserId"
    /\ \E s \in BOOLEAN : Throw("getUserId", s)
    /\ UNCHANGED << pure, procs, loc, timeline, gist, runVars, histVars >>

\* the resolved id returned without being saved
SaveUserIdOk_Deferred ==
    /\ pc = "saveUserId"
    /\ pc' = FetchCall
    /\ rateLimit' = NoRateLimit
    /\ UNCHANGED << pure, procs, loc, timeline, gist, runVars, sendVars, err, outcome, calls, order, sentBy, startGist, quiet, fetchedQuiet,
                    specificUsed, lookedUp >>

\* saveState(state.last_id, userId) of getUserIdWithCache
SaveUserIdOk ==
    /\ pc = "saveUserId"
    /\ gist' = [ last_id |-> state.last_id, user_id |-> userId ]
    /\ pc' = FetchCall
    /\ rateLimit' = NoRateLimit
    /\ UNCHANGED << pure, procs, loc, timeline, runVars, sendVars, err, outcome, calls, order, sentBy, startGist, quiet, fetchedQuiet,
                    specificUsed, lookedUp >>

SaveUserIdFail ==
    /\ pc = "saveUserId"
    /\ Throw("saveUserId", FALSE)
    /\ rateLimit' = NoRateLimit
    /\ UNCHANGED << pure, procs, loc, timeline, gist, runVars, calls, order, sentBy, startGist, quiet, fetchedQuiet,
                    specificUsed, lookedUp >>

\* fetchNewTweets: the response lists the page in some order and is sorted
FetchNewTweetsOk ==
    /\ pc = "userTimeline"
    /\ \E resp \in Orderings({ IdOf(k) : k \in TimelinePage(SinceIdParam(state.last_id), args.maxPerRun) }),
          info \in RateLimitInfos :
          /\ rateLimit' = info
          /\ IF QuotaExhausted(info)
             THEN Throw("fetch", TRUE) /\ UNCHANGED << tweets, idx >>
             ELSE AfterFetch(SortTweets(resp)) /\ err' = err
    /\ quiet' = TRUE
    /\ fetchedQuiet' = quiet
    /\ UNCHANGED << pure, procs, loc, timeline, gist, args, state, userId, calls, order, sentBy,
                    startGist, specificUsed, lookedUp >>

FetchSpecificTweetOk ==
    /\ pc = "singleTweet"
    /\ IndexOf(args.tweetId) <= timeline
    /\ \E info \in RateLimitInfos :
          /\ rateLimit' = info
          /\ IF QuotaExhausted(info)
             THEN Throw("fetch", TRUE) /\ UNCHANGED << tweets, idx >>
             ELSE AfterFetch(<< args.tweetId >>) /\ err' = err
    /\ UNCHANGED << pure, procs, loc, timeline, gist, args, state, userId, calls, order, sentBy,
                    startGist, quiet, fetchedQuiet, specificUsed, lookedUp >>

\* response.data is missing: fetchSpecificTweet throws a plain Error
FetchSpecificTweetNotFound ==
    /\ pc = "singleTweet"
    /\ IndexOf(args.tweetId) > timeline
    /\ Throw("fetch", FALSE)
    /\ UNCHANGED << pure, procs, loc, timeline, gist, runVars, histVars >>

\* userTimeline or singleTweet rejects, with status 429 or another one
FetchFail ==
    /\ pc \in { "userTimeline", "singleTweet" }
    /\ \E s \in BOOLEAN : Throw("fetch", s)
    /\ UNCHANGED << pure, procs, loc, timeline, gist, runVars, histVars >>

\* the dryRun flag not passed on to sendToTelegram
DryRun_Ignored == FALSE

\* if (dryRun) of sendToTelegram, line 502
DryRun == args.dryRun

\* processTweets' loop body up to the first await of sendToTelegram
ProcessTweets ==
    /\ pc = "processTweets"
    /\ \E tl \in TextLens, m \in MediaCounts, video \in BOOLEAN :
          LET msg == buildMessage(args.username, [ id |-> tweets[idx], textLen |-> tl ], video)
          IN  /\ video => m > 0
              /\ message' = msg
              /\ media' = m
              /\ IF DryRun
                 THEN pc' = "saveState" /\ phase' = "none" /\ chunks' = <<>> /\ part' = 0
                 ELSE IF m = 0
                 THEN /\ pc' = "sendMessage" /\ phase' = "text" /\ part' = 1
                      /\ chunks' = chunkTelegramMessage(msg, TELEGRAM_MAX_MESSAGE_LENGTH)
                 ELSE IF m = 1
                 THEN pc' = "sendPhoto" /\ phase' = "media" /\ chunks' = <<>> /\ part' = 0
                 ELSE pc' = "sendMediaGroup" /\ phase' = "media" /\ chunks' = <<>> /\ part' = 0
    /\ calls' = <<>>
    /\ rateLimit' = NoRateLimit
    /\ UNCHANGED << pure, procs, loc, timeline, gist, runVars, err, outcome, order, sentBy, startGist,
                    quiet, fetchedQuiet, specificUsed, lookedUp >>

\* sendSingleMedia: bot.api.sendPhoto resolves, sendToTelegram returns
SendPhotoOk ==
    /\ pc = "sendPhoto"
    /\ Record("sendPhoto", 0, TRUE)
    /\ pc' = "saveState"
    /\ UNCHANGED << pure, procs, loc, timeline, gist, runVars, sendVars, err, outcome >>

SendPhotoFail ==
    /\ pc = "sendPhoto"
    /\ Record("sendPhoto", 0, FALSE)
    /\ Fallback
    /\ UNCHANGED << pure, procs, loc, timeline, gist, runVars >>

\* sendMediaGroup: the group call resolves; lines 553-556
SendMediaGroupOk ==
    /\ pc = "sendMediaGroup"
    /\ Record("sendMediaGroup", 0, TRUE)
    /\ IF message.len > TELEGRAM_CAPTION_MAX_LENGTH \/ media > TELEGRAM_MEDIA_GROUP_MAX_SIZE
       THEN /\ pc' = "sendMessage" /\ phase' = "supp" /\ part' = 1
            /\ chunks' = chunkTelegramMessage(message, TELEGRAM_MAX_MESSAGE_LENGTH)
       ELSE pc' = "saveState" /\ phase' = phase /\ part' = part /\ chunks' = chunks
    /\ UNCHANGED << pure, procs, loc, timeline, gist, runVars, message, media, err, outcome >>

SendMediaGroupFail ==
    /\ pc = "sendMediaGroup"
    /\ Record("sendMediaGroup", 0, FALSE)
    /\ Fallback
    /\ UNCHANGED << pure, procs, loc, timeline, gist, runVars >>

\* sendTextMessageChunked: bot.api.sendMessage of chunk `part` resolves
SendMessageOk ==
    /\ pc = "sendMessage"
    /\ Record("sendMessage", part, TRUE)
    /\ IF part < Len(chunks)
       THEN pc' = pc /\ part' = part + 1
       ELSE pc' = "saveState" /\ part' = part
    /\ UNCHANGED << pure, procs, loc, timeline, gist, runVars, message, media, phase, chunks, err, outcome >>

\* the rejection swallowed and the loop moving on to the next chunk
SendMessageFail_Continue ==
    /\ pc = "sendMessage"
    /\ Record("sendMessage", part, FALSE)
    /\ IF part < Len(chunks)
       THEN pc' = pc /\ part' = part + 1
       ELSE pc' = "saveState" /\ part' = part
    /\ UNCHANGED << pure, procs, loc, timeline, gist, runVars, message, media, phase, chunks, err, outcome >>

\* it rejects: inside sendMediaGroup the catch of line 522 takes it,
\* elsewhere it leaves sendToTelegram
SendMessageFail ==
    /\ pc = "sendMessage"
    /\ Record("sendMessage", part, FALSE)
    /\ IF phase = "supp"
       THEN Fallback
       ELSE \E status \in TelegramStatuses : ThrowTelegram(status)
    /\ UNCHANGED << pure, procs, loc, timeline, gist, runVars >>

\* the state written with the cursor alone, the account id left out
SaveStateOk_LastIdOnly ==
    /\ pc = "saveState"
    /\ gist' = [ last_id |-> SavedLastId, user_id |-> NoUser ]
    /\ idx' = idx + 1
    /\ IF idx = Len(tweets)
       THEN Finish("posted")
       ELSE pc' = "processTweets" /\ UNCHANGED << outcome, sendVars >>
    /\ UNCHANGED << pure, procs, loc, timeline, args, state, userId, tweets, err, histVars >>

\* the for loop of processTweets going round on the same tweet
SaveStateOk_SameTweet ==
    /\ pc = "saveState"
    /\ gist' = [ last_id |-> SavedLastId, user_id |-> userId ]
    /\ pc' = "processTweets"
    /\ UNCHANGED << pure, procs, loc, timeline, runVars, sendVars, err, outcome, histVars >>

\* saveState(tweet.id, userId) of processTweets, then the next iteration
SaveStateOk ==
    /\ pc = "saveState"
    /\ gist' = [ last_id |-> SavedLastId, user_id |-> userId ]
    /\ idx' = idx + 1
    /\ IF idx = Len(tweets)
       THEN Finish("posted")
       ELSE pc' = "processTweets" /\ UNCHANGED << outcome, sendVars >>
    /\ UNCHANGED << pure, procs, loc, timeline, args, state, userId, tweets, err, histVars >>

\* the rejection swallowed and the loop moving on to the next tweet
SaveStateFail_Swallowed ==
    /\ pc = "saveState"
    /\ idx' = idx + 1
    /\ IF idx = Len(tweets)
       THEN Finish("posted")
       ELSE pc' = "processTweets" /\ UNCHANGED << outcome, sendVars >>
    /\ UNCHANGED << pure, procs, loc, timeline, gist, args, state, userId, tweets, err, histVars >>

SaveStateFail ==
    /\ pc = "saveState"
    /\ Throw("saveState", FALSE)
    /\ UNCHANGED << pure, procs, loc, timeline, gist, runVars, histVars >>

\* ------------------------------------------------------------------------
\* Specifications
\* ------------------------------------------------------------------------
OkSteps ==
    \/ LoadStateOk \/ GetUserIdOk \/ SaveUserIdOk \/ FetchNewTweetsOk
    \/ ProcessTweets \/ SendPhotoOk \/ SendMediaGroupOk \/ SendMessageOk
    \/ SaveStateOk

SpecificSteps == FetchSpecificTweetOk \/ FetchSpecificTweetNotFound

FailSteps ==
    \/ LoadStateFail \/ GetUserIdNotFound \/ GetUserIdFail \/ SaveUserIdFail
    \/ FetchFail \/ SendPhotoFail \/ SendMediaGroupFail \/ SendMessageFail
    \/ SaveStateFail

\* every run, every answer of every external call
Next == Publish \/ Launch \/ RunStart(AllArgs) \/ OkSteps \/ SpecificSteps \/ FailSteps
Spec == Init /\ [][Next]_vars

\* runs of the timeline with either handle, in which every external call
\* succeeds
NextHandles ==
    \/ Publish \/ Launch
    \/ RunStart([ username : Handles, tweetId : { Null }, dryRun : BOOLEAN, maxPerRun : { 1 } ])
    \/ OkSteps
SpecHandles == Init /\ [][NextHandles]_vars

\* runs of any configuration in which every external call succeeds
NextNoFault == Publish \/ Launch \/ RunStart(AllArgs) \/ OkSteps \/ SpecificSteps
SpecNoFault == Init /\ [][NextNoFault]_vars

\* timeline runs, dry or not, in which every external call succeeds
NextTimeline == Publish \/ Launch \/ RunStart(TimelineArgs) \/ OkSteps
SpecTimeline == Init /\ [][NextTimeline]_vars

\* scheduled runs (timeline, not dry) in which every external call succeeds
\* and returns; the scheduler starts a run again and again
LiveArgs == { a \in TimelineArgs : ~a.dryRun }
NextLive == Publish \/ Launch \/ RunStart(LiveArgs) \/ OkSteps
SpecLive == Init /\ [][NextLive]_vars /\ WF_vars(Launch \/ RunStart(LiveArgs) \/ OkSteps)

\* the states earlier runs can have left in the Gist when the account has n
\* posts: empty, or the account id with no last_id or that of a post
StoreStates(n) ==
    { NoState } \cup { [ last_id |-> l, user_id |-> UserIdOf(Handle) ] :
                         l \in { Null } \cup { IdOf(k) : k \in 1..n } }

\* one run of any configuration, started on any such state, in which every
\* external call returns, resolved or rejected: a pending step of run() is
\* eventually taken
InitReturns ==
    /\ timeline \in 0..MaxPosts
    /\ gist \in StoreStates(timeline)
    /\ InitProcess
    /\ pure = NoPure
LaunchOnce == outcome = "none" /\ Launch
RunSteps == RunStart(AllArgs) \/ OkSteps \/ SpecificSteps \/ FailSteps
NextReturns == Publish \/ LaunchOnce \/ RunSteps
SpecReturns == InitReturns /\ [][NextReturns]_vars /\ WF_vars(RunSteps)

\* ------------------------------------------------------------------------
\* Overlapping processes: the workflow, or a user at a shell, starts the
\* script while it is already running. Each process runs the same run(), here
\* a timeline run that posts text and whose external calls all succeed
\* ------------------------------------------------------------------------
mainVars == << pure, loc, timeline, pc, runVars, sendVars, err, outcome, calls, order, startGist,
               quiet, fetchedQuiet, specificUsed, lookedUp, rateLimit >>

\* a start that waits until no process is under way
ProcLaunch_Locked(p) ==
    /\ procs[p].pc = "idle"
    /\ \A q \in Procs : procs[q].pc = "idle"
    /\ procs' = [ procs EXCEPT ![p] = [ @ EXCEPT !.pc = "loadState", !.state = NoState,
                                                  !.userId = NoUser, !.tweets = <<>>,
                                                  !.idx = 0 ] ]
    /\ UNCHANGED << mainVars, gist, sentBy >>

\* main and run up to loadState: nothing is read or taken that tells whether
\* a process is already under way
ProcLaunch(p) ==
    /\ procs[p].pc = "idle"
    /\ procs' = [ procs EXCEPT ![p] =
                    [ @ EXCEPT !.pc = "loadState", !.state = NoState, !.userId = NoUser,
                               !.tweets = <<>>, !.idx = 0,
                               !.overlapped = @ \/ \E q \in Procs : procs[q].pc # "idle" ] ]
    /\ UNCHANGED << mainVars, gist, sentBy >>

ProcLoadState(p) ==
    /\ procs[p].pc = "loadState"
    /\ procs' = [ procs EXCEPT ![p] =
                    [ @ EXCEPT !.state = gist,
                               !.userId = IF CachedUserId(gist) # NoUser THEN gist.user_id ELSE @,
                               !.pc = IF CachedUserId(gist) # NoUser THEN "userTimeline"
                                      ELSE "getUserId" ] ]
    /\ UNCHANGED << mainVars, gist, sentBy >>

ProcGetUserId(p) ==
    /\ procs[p].pc = "getUserId"
    /\ procs' = [ procs EXCEPT ![p] = [ @ EXCEPT !.userId = UserIdOf(Handle),
                                                  !.pc = "saveUserId" ] ]
    /\ UNCHANGED << mainVars, gist, sentBy >>

\* the write replaces a last_id by a smaller one (or by none)
Regresses(lastId) ==
    /\ gist.last_id # Null
    /\ lastId # gist.last_id
    /\ lastId = Null \/ LexLess(lastId, gist.last_id)

ProcSaveUserId(p) ==
    /\ procs[p].pc = "saveUserId"
    /\ gist' = [ last_id |-> procs[p].state.last_id, user_id |-> procs[p].userId ]
    /\ procs' = [ procs EXCEPT ![p] =
                    [ @ EXCEPT !.pc = "userTimeline",
                               !.regressed = @ \/ Regresses(procs[p].state.last_id) ] ]
    /\ UNCHANGED << mainVars, sentBy >>

ProcFetchNewTweets(p) ==
    /\ procs[p].pc = "userTimeline"
    /\ LET page == { IdOf(k) :
                       k \in TimelinePage(SinceIdParam(procs[p].state.last_id), MaxPerRun) }
           ts == SortTweets(CHOOSE resp \in Orderings(page) : TRUE)
       IN  procs' = [ procs EXCEPT ![p] =
                       [ @ EXCEPT !.tweets = ts,
                                  !.idx = IF Len(ts) = 0 THEN 0 ELSE 1,
                                  !.pc = IF Len(ts) = 0 THEN "idle" ELSE "sendMessage" ] ]
    /\ UNCHANGED << mainVars, gist, sentBy >>

ProcSendMessage(p) ==
    /\ procs[p].pc = "sendMessage"
    /\ sentBy' = [ sentBy EXCEPT ![procs[p].tweets[procs[p].idx]] = Min(2, @ + 1) ]
    /\ procs' = [ procs EXCEPT ![p] = [ @ EXCEPT !.pc = "saveState" ] ]
    /\ UNCHANGED << mainVars, gist >>

ProcSaveState(p) ==
    /\ procs[p].pc = "saveState"
    /\ gist' = [ last_id |-> procs[p].tweets[procs[p].idx], user_id |-> procs[p].userId ]
    /\ procs' = [ procs EXCEPT ![p] =
                    [ @ EXCEPT !.idx = @ + 1,
                               !.pc = IF procs[p].idx = Len(procs[p].tweets) THEN "idle"
                                      ELSE "sendMessage",
                               !.regressed = @ \/ Regresses(procs[p].tweets[procs[p].idx]) ] ]
    /\ UNCHANGED << mainVars, sentBy >>

ProcSteps(p) ==
    \/ ProcLaunch(p) \/ ProcLoadState(p) \/ ProcGetUserId(p) \/ ProcSaveUserId(p)
    \/ ProcFetchNewTweets(p) \/ ProcSendMessage(p) \/ ProcSaveState(p)
PublishOverlap ==
    /\ timeline < MaxPosts
    /\ timeline' = timeline + 1
    /\ UNCHANGED << pure, procs, loc, gist, pc, runVars, sendVars, err, outcome, histVars >>
NextOverlap == PublishOverlap \/ \E p \in Procs : ProcSteps(p)
SpecOverlap == Init /\ [][NextOverlap]_vars

\* ------------------------------------------------------------------------
\* The local-file script x_to_telegram.js: main, runOnce and the state file.
\* A post is sent as one sendMessage (its body fits one chunk)
\* ------------------------------------------------------------------------
localFrame == << pure, procs, gist, pc, runVars, sendVars, err, outcome, histVars >>

\* a cycle of main's loop begins: runOnce up to its first await
NewCycle(l) ==
    [ l EXCEPT !.pc = "getUserId", !.lastId = Null, !.tweets = <<>>, !.idx = 0,
               !.delivered = 0, !.loadFailed = FALSE, !.saveFailedAt = 0 ]

\* runOnce returns: main returns with --once, otherwise it sleeps the interval
CycleReturns(l, result) ==
    [ l EXCEPT !.result = result, !.pc = IF l.once THEN "exited" ELSE "sleep" ]

\* runOnce throws e: with --once main exits with status 1, otherwise the loop
\* catches it and sleeps, 300 s more when e.code is 429
CycleThrows(l, code429) ==
    [ l EXCEPT !.result = "error",
               !.pc = IF l.once THEN "exited" ELSE IF code429 THEN "sleep429" ELSE "sleep" ]

LocalStart ==
    /\ loc.pc = "main"
    /\ \E once \in BOOLEAN, dryRun \in BOOLEAN :
          loc' = NewCycle([ loc EXCEPT !.once = once, !.dryRun = dryRun ])
    /\ UNCHANGED << timeline, localFrame >>

LocalGetUserIdOk ==
    /\ loc.pc = "getUserId"
    /\ loc' = [ loc EXCEPT !.pc = "loadState" ]
    /\ UNCHANGED << timeline, localFrame >>

\* userByUsername rejects, or the user is not found: outside runOnce's try
LocalGetUserIdFail ==
    /\ loc.pc = "getUserId"
    /\ \E code429 \in BOOLEAN : loc' = CycleThrows(loc, code429)
    /\ UNCHANGED << timeline, localFrame >>

LocalLoadStateOk ==
    /\ loc.pc = "loadState"
    /\ loc' = [ loc EXCEPT !.lastId = loc.file, !.pc = "fetch" ]
    /\ UNCHANGED << timeline, localFrame >>

\* readFile or JSON.parse throws: the catch returns { last_id: null }
LocalLoadStateFail ==
    /\ loc.pc = "loadState"
    /\ loc' = [ loc EXCEPT !.lastId = Null, !.loadFailed = TRUE, !.pc = "fetch" ]
    /\ UNCHANGED << timeline, localFrame >>

LocalFetchOk ==
    /\ loc.pc = "fetch"
    /\ LET page == { IdOf(k) : k \in TimelinePage(SinceIdParam(loc.lastId), MaxPerRun) }
           ts == SortedPage("BigInt", CHOOSE resp \in Orderings(page) : TRUE, MaxPerRun)
       IN  loc' = IF Len(ts) = 0 THEN CycleReturns([ loc EXCEPT !.tweets = ts ], "ok")
                  ELSE [ loc EXCEPT !.tweets = ts, !.idx = 1, !.pc = "send" ]
    /\ UNCHANGED << timeline, localFrame >>

\* userTimeline rejects: runOnce's catch returns on e.code === 429 and
\* rethrows anything else
LocalFetchFail ==
    /\ loc.pc = "fetch"
    /\ \E code429 \in BOOLEAN :
          loc' = IF code429 THEN CycleReturns(loc, "rate_limited")
                  ELSE CycleThrows(loc, FALSE)
    /\ UNCHANGED << timeline, localFrame >>

\* sendToTelegram returns (in a dry run without a call); lastId = t.id
LocalSendOk ==
    /\ loc.pc = "send"
    /\ loc' = [ loc EXCEPT !.delivered = IF loc.dryRun THEN @ ELSE @ + 1,
                           !.lastId = loc.tweets[loc.idx], !.pc = "saveState" ]
    /\ UNCHANGED << timeline, localFrame >>

\* sendMessage rejects with a GrammyError, which has no code
LocalSendFail ==
    /\ loc.pc = "send"
    /\ ~loc.dryRun
    /\ loc' = CycleThrows(loc, FALSE)
    /\ UNCHANGED << timeline, localFrame >>

\* the loop of runOnce after saveState has returned
AfterLocalSave(l) ==
    IF l.idx = Len(l.tweets) THEN CycleReturns([ l EXCEPT !.idx = @ + 1 ], "ok")
    ELSE [ l EXCEPT !.idx = @ + 1, !.pc = "send" ]

LocalSaveStateOk ==
    /\ loc.pc = "saveState"
    /\ loc' = AfterLocalSave([ loc EXCEPT !.file = loc.lastId ])
    /\ UNCHANGED << timeline, localFrame >>

\* writeFile throws: the catch logs it and saveState returns
LocalSaveStateFail ==
    /\ loc.pc = "saveState"
    /\ loc' = AfterLocalSave([ loc EXCEPT !.saveFailedAt = IF @ = 0 THEN loc.idx ELSE @ ])
    /\ UNCHANGED << timeline, localFrame >>

\* the 300 s timer of the catch fires
LocalSleep429Done ==
    /\ loc.pc = "sleep429"
    /\ loc' = [ loc EXCEPT !.pc = "sleep" ]
    /\ UNCHANGED << timeline, localFrame >>

\* the interval timer fires: the loop calls runOnce again
LocalSleepDone ==
    /\ loc.pc = "sleep"
    /\ loc' = NewCycle(loc)
    /\ UNCHANGED << timeline, localFrame >>

PublishLocal ==
    /\ timeline < MaxPosts
    /\ timeline' = timeline + 1
    /\ UNCHANGED << loc, localFrame >>

LocalSteps ==
    \/ LocalStart \/ LocalGetUserIdOk \/ LocalGetUserIdFail \/ LocalLoadStateOk
    \/ LocalLoadStateFail \/ LocalFetchOk \/ LocalFetchFail \/ LocalSendOk \/ LocalSendFail
    \/ LocalSaveStateOk \/ LocalSaveStateFail \/ LocalSleep429Done \/ LocalSleepDone
NextLocal == PublishLocal \/ LocalSteps
\* every call returns and every timer fires
SpecLocal == Init /\ [][NextLocal]_vars /\ WF_vars(LocalSteps)

\* ------------------------------------------------------------------------
\* The pure functions on their own
\* ------------------------------------------------------------------------
\* the sort of each revision is applied to pages of ids of one to three digits
PageIds == { << 9 >>, << 1, 0 >>, << 1, 9 >>, << 1, 0, 0 >> }
SortInputs ==
    { [ fn |-> "fetchNewTweets", revision |-> r, data |-> d, maxPerRun |-> Cardinality(PageIds),
        done |-> FALSE, result |-> <<>> ] :
        r \in Revisions, d \in UNION { Orderings(S) : S \in SUBSET PageIds } }

InitPure ==
    /\ InitRun
    /\ \/ pure \in ChunkInputs
       \/ pure \in CaptionInputs
       \/ pure \in MediaInputs
       \/ pure \in MessageInputs
       \/ pure \in TweetTextInputs
       \/ pure \in SortInputs

ApplyChunkTelegramMessage ==
    /\ pure.fn = "chunkTelegramMessage" /\ ~pure.done
    /\ pure' = [ pure EXCEPT !.done = TRUE,
                             !.result = chunkTelegramMessage(pure.text, pure.chunkSize) ]
    /\ UNCHANGED << procs, loc, timeline, gist, pc, runVars, sendVars, err, outcome, histVars >>

ApplyGenerateCaption ==
    /\ pure.fn = "generateCaption" /\ ~pure.done
    /\ pure' = [ pure EXCEPT !.done = TRUE, !.result = generateCaption(pure.text) ]
    /\ UNCHANGED << procs, loc, timeline, gist, pc, runVars, sendVars, err, outcome, histVars >>

ApplyExtractMedia ==
    /\ pure.fn = "extractMedia" /\ ~pure.done
    /\ pure' = [ pure EXCEPT !.done = TRUE, !.result = extractMedia(pure.tweet, pure.mediaData) ]
    /\ UNCHANGED << procs, loc, timeline, gist, pc, runVars, sendVars, err, outcome, histVars >>

\* lines 670-672 of processTweets
ApplyBuildMessage ==
    /\ pure.fn = "buildMessage" /\ ~pure.done
    /\ LET media_ == extractMedia(pure.tweet, pure.mediaData)
           hasVideoPreview == HasVideoPreview(media_)
       IN  pure' = [ pure EXCEPT !.done = TRUE,
                                 !.result = buildMessage(pure.username, pure.tweet, hasVideoPreview) ]
    /\ UNCHANGED << procs, loc, timeline, gist, pc, runVars, sendVars, err, outcome, histVars >>

ApplyExtractTweetText ==
    /\ pure.fn = "extractTweetText" /\ ~pure.done
    /\ pure' = [ pure EXCEPT !.done = TRUE, !.result = extractTweetText(pure.tweet) ]
    /\ UNCHANGED << procs, loc, timeline, gist, pc, runVars, sendVars, err, outcome, histVars >>

\* the sort and return of fetchNewTweets, in each revision
ApplySort ==
    /\ pure.fn = "fetchNewTweets" /\ ~pure.done
    /\ pure' = [ pure EXCEPT !.done = TRUE,
                             !.result = SortedPage(pure.revision, pure.data, pure.maxPerRun) ]
    /\ UNCHANGED << procs, loc, timeline, gist, pc, runVars, sendVars, err, outcome, histVars >>

NextPure ==
    \/ ApplyChunkTelegramMessage \/ ApplyGenerateCaption \/ ApplyExtractMedia
    \/ ApplyBuildMessage \/ ApplyExtractTweetText \/ ApplySort
SpecPure == InitPure /\ [][NextPure]_vars

\* ------------------------------------------------------------------------
\* Properties
\* ------------------------------------------------------------------------
Range(s) == { s[i] : i \in 1..Len(s) }
LexMax(S) == CHOOSE x \in S : \A y \in S : LexLeq(y, x)
Ascending(s) == \A i, j \in 1..Len(s) : i < j => LexLess(s[i], s[j])

\* the run has ended by throwing out of run()
EndedFatal == pc = "idle" /\ outcome = "fatal"
\* the run has ended with every fetched tweet processed
EndedPosted == pc = "idle" /\ outcome = "posted"

\* a media call of the tweet being processed (sendPhoto, sendMediaGroup or the
\* text sent inside sendMediaGroup) was rejected
MediaFailed ==
    \E i \in 1..Len(calls) : ~calls[i].ok /\ calls[i].phase \in { "media", "supp" }

CallsOf(ph) == SelectSeq(calls, LAMBDA c : c.phase = ph)

\* every chunk of the body went out, once and in chunk order, by the
\* sendTextMessageChunked call named ph
FullTextSent(ph) ==
    LET t == CallsOf(ph)
    IN  /\ Len(t) = Len(Chunks)
        /\ \A i \in 1..Len(t) : t[i].method = "sendMessage" /\ t[i].part = i /\ t[i].ok

\* C1, as stated: over runs of any configuration (timeline or --tweet-id, dry
\* or not) in which every external call succeeds, no post is sent to the
\* channel by more than one run.
C1_AtMostOnceAnyRuns == \A i \in AllIds : sentBy[i] <= 1

\* C1, amended: over fault-free runs none of which was given --tweet-id, no
\* post is sent to the channel by more than one run.
C1_AtMostOnceTimelineRuns == ~specificUsed => \A i \in AllIds : sentBy[i] <= 1

\* a later timeline run is sending a post while an earlier post stays sent once
C1_Witness ==
    /\ ~specificUsed
    /\ order # <<>>
    /\ \E i \in AllIds : i \notin Range(order) /\ sentBy[i] = 1

\* C2: under repeated fault-free timeline runs (not dry), every published post
\* whose id is greater than the persisted last_id is eventually sent.
C2_NoPostSkipped ==
    \A k \in 1..MaxPosts :
        [] ( (k <= timeline /\ gist.last_id # Null /\ LexLess(gist.last_id, IdOf(k)))
             => <> (sentBy[IdOf(k)] > 0) )

\* C3, as stated: when the delivery of the k-th fetched tweet fails fatally,
\* the run ends with last_id = id of the (k-1)-th (its value at the start of
\* the run when k = 1), and last_id is not the id of the k-th or of a later one.
C3_CursorAtFailedDelivery ==
    (EndedFatal /\ err.at = "deliver") =>
        /\ gist.last_id = (IF idx = 1 THEN startGist.last_id ELSE tweets[idx - 1])
        /\ \A j \in idx..Len(tweets) : gist.last_id # tweets[j]

\* C3, amended: ... and last_id is the id of the k-th or of a later tweet only
\* if it already had that value when the run started.
C3_CursorNotAdvancedPastFailure ==
    (EndedFatal /\ err.at = "deliver") =>
        /\ gist.last_id = (IF idx = 1 THEN startGist.last_id ELSE tweets[idx - 1])
        /\ \A j \in idx..Len(tweets) :
              gist.last_id = tweets[j] => startGist.last_id = tweets[j]

\* the second of two fetched tweets failed after the first was delivered
C3_Witness ==
    /\ EndedFatal /\ err.at = "deliver"
    /\ Len(tweets) = 2 /\ idx = 2
    /\ order = << tweets[1] >>
    /\ gist.last_id # startGist.last_id

\* C4: whatever order the timeline response lists the tweets in, they are
\* sent in ascending lexicographic order of id, and a run that delivers all
\* of them leaves last_id = the lexicographically greatest fetched id.
C4_Ordering ==
    args.tweetId = Null =>
        /\ Ascending(order)
        /\ EndedPosted =>
              /\ gist.last_id = LexMax(Range(tweets))
              /\ ~args.dryRun => Len(order) = Len(tweets) /\ Range(order) = Range(tweets)

C4_Witness ==
    /\ args.tweetId = Null /\ ~args.dryRun
    /\ EndedPosted
    /\ Len(order) = 2
    /\ gist.last_id = order[2]

\* C5: last_id, once non-null, never decreases: every write of it (by a
\* timeline run or a --tweet-id run) stores an id >= the one it replaces.
C5_CursorNeverDecreases ==
    [][ gist.last_id # Null => LexLeq(gist.last_id, gist'.last_id) ]_vars

\* C6: a run given --tweet-id fetches and delivers only that tweet and
\* leaves last_id as it found it.
C6_SpecificTweetLeavesCursor ==
    args.tweetId # Null =>
        /\ Range(tweets) \subseteq { args.tweetId }
        /\ Range(order) \subseteq { args.tweetId }
        /\ gist.last_id = startGist.last_id

\* C7: when getUserId or the fetch rejects with status 429, the run returns
\* normally, no Bot API call is made in it and last_id is left unchanged.
C7_RateLimitIsSoft ==
    (err.s429 /\ err.at \in { "getUserId", "fetch" }) =>
        /\ pc = "idle" /\ outcome = "rate_limited"
        /\ calls = <<>> /\ order = <<>>
        /\ gist.last_id = startGist.last_id

\* the fetch of a run with a cursor was answered 429 and the run has returned
C7_Witness ==
    /\ pc = "idle" /\ outcome = "rate_limited"
    /\ err.at = "fetch"
    /\ gist.last_id # Null

\* C8: of two consecutive fault-free timeline runs with no post published
\* between their fetches, the second delivers nothing and leaves the
\* persisted state as it found it.
C8_SecondRunDeliversNothing ==
    fetchedQuiet => tweets = <<>> /\ order = <<>> /\ gist = startGist

\* the second run has ended after an earlier run had delivered posts
C8_Witness ==
    /\ fetchedQuiet /\ pc = "idle" /\ outcome = "no_new_tweets"
    /\ gist.last_id # Null
    /\ \E i \in AllIds : sentBy[i] > 0

\* C9: when the media send of a message fails, the body is sent as chunked
\* text instead; when those sends succeed the delivery completes with the
\* whole body sent, the run reports no failure for the post and last_id
\* advances to it; a failure is reported only when a text send failed.
C9_MediaFallback ==
    MediaFailed =>
        /\ pc \in { "sendMessage", "saveState", "processTweets", "idle" }
        /\ pc = "sendMessage" => phase = "fallback"
        /\ pc = "saveState" => FullTextSent("fallback")
        /\ err.at = "deliver" =>
              LET last == calls[Len(calls)]
              IN  last.method = "sendMessage" /\ last.phase = "fallback" /\ ~last.ok
        /\ (pc \in { "processTweets", "idle" } /\ err.at = "none") =>
              /\ gist.last_id = tweets[idx - 1]
              /\ outcome # "fatal"

\* a media group failed, the text went out in several chunks, the run ended
C9_Witness ==
    /\ EndedPosted
    /\ MediaFailed
    /\ Len(CallsOf("fallback")) > 1
    /\ gist.last_id = tweets[Len(tweets)]

\* C10: when a message with media has a body longer than a caption and the
\* media send succeeds, the whole body is also sent as chunked text, for one
\* media item as for a group.
C10_FullTextAfterLongCaption ==
    ( /\ pc = "saveState" /\ ~args.dryRun
      /\ media >= 1
      /\ message.len > TELEGRAM_CAPTION_MAX_LENGTH
      /\ ~MediaFailed )
    => FullTextSent("supp")

\* a Bot API call is being awaited
Sending == pc \in { "sendPhoto", "sendMediaGroup", "sendMessage" }
\* the run has ended, in whichever way
RunEnded == pc = "idle" /\ outcome # "none"

\* C11: in a dry run sendToTelegram makes no Bot API call (sendMessage,
\* sendPhoto, sendMediaGroup) for any message, with or without media, and
\* returns normally: the run goes on to saveState and no delivery error is thrown.
C11_DryRunMakesNoCall ==
    args.dryRun =>
        /\ ~Sending
        /\ calls = <<>> /\ order = <<>>
        /\ err.at # "deliver"
        /\ idx >= 1 => pc \in { "processTweets", "saveState", "idle" }

\* the second tweet of a dry run, long and with more media than a group takes,
\* has come back from sendToTelegram
C11_Witness ==
    /\ args.dryRun /\ pc = "saveState" /\ idx = 2
    /\ media > TELEGRAM_MEDIA_GROUP_MAX_SIZE
    /\ message.len > TELEGRAM_MAX_MESSAGE_LENGTH
    /\ calls = <<>>

\* the tweet being processed has no media and goes out as text only
TextOnly == phase = "text" \/ (calls # <<>> /\ calls[1].phase = "text")

\* C12: for a message without media the chunks of the body are sent by
\* separate sendMessage calls in chunk order; when the send of chunk j is
\* rejected no later chunk is sent, the delivery fails and the error reaches
\* run's catch.
C12_TextChunksInOrder ==
    TextOnly =>
        /\ \A i \in 1..Len(calls) :
              /\ calls[i].method = "sendMessage" /\ calls[i].phase = "text"
              /\ calls[i].part = i
              /\ i < Len(calls) => calls[i].ok
        /\ pc = "sendMessage" => part = Len(calls) + 1 /\ part <= Len(chunks)
        /\ pc = "saveState" => FullTextSent("text")
        /\ (calls # <<>> /\ ~calls[Len(calls)].ok) =>
              /\ EndedFatal
              /\ err.at = "deliver"

\* the second chunk was rejected and the run has ended
C12_Witness ==
    /\ TextOnly /\ EndedFatal
    /\ message = NoText
    /\ Len(calls) = 2 /\ calls[1].ok /\ ~calls[2].ok

\* the last Bot API call for the tweet being processed was a rejected
\* sendMessage of the text-only path (text-only delivery or text fallback)
TextPathFailed ==
    /\ calls # <<>>
    /\ LET last == calls[Len(calls)]
       IN  ~last.ok /\ last.method = "sendMessage" /\ last.phase \in { "text", "fallback" }

\* C13: a failure of the text-only path is fatal to the run whatever status
\* the Bot API rejected the call with: the error reaches run's catch and is
\* rethrown, the run does not end as a rate-limit soft success, and no
\* saveState is made for the post (last_id stays at the previous post's id).
C13_TextFailureIsFatal ==
    TextPathFailed =>
        /\ EndedFatal
        /\ err.at = "deliver" /\ err.error_code \in TelegramStatuses
        /\ gist.last_id = (IF idx = 1 THEN startGist.last_id ELSE tweets[idx - 1])

\* the text fallback after a failed media send was rejected with status 429
\* and the run has ended
C13_Witness ==
    /\ EndedFatal /\ TextPathFailed
    /\ calls[Len(calls)].phase = "fallback"
    /\ err.error_code = 429

\* C14: for every body and limit L, every piece chunkTelegramMessage returns
\* has at most L characters, and every piece but the last ends just before
\* the last newline at or before position start + L when that newline lies
\* after the piece's start, and after exactly L characters otherwise.
C14_ChunkRule ==
    (pure.fn = "chunkTelegramMessage" /\ pure.done) =>
        LET text == pure.text
            L == pure.chunkSize
            pieces == pure.result
        IN  \A i \in 1..Len(pieces) :
                LET start == pieces[i].from
                    upTo == { p \in text.nl : p <= start + L }
                IN  /\ pieces[i].to - start <= L
                    /\ i < Len(pieces) =>
                          IF upTo # {} /\ SetMax(upTo) > start
                          THEN pieces[i].to = SetMax(upTo)
                          ELSE pieces[i].to - start = L

\* a body cut into at least three pieces, one cut short at a newline and one
\* cut after L characters
C14_Witness ==
    /\ pure.fn = "chunkTelegramMessage" /\ pure.done
    /\ Len(pure.result) >= 3
    /\ \E i, j \in 1..(Len(pure.result) - 1) :
          /\ pure.result[i].to \in pure.text.nl
          /\ pure.result[i].to - pure.result[i].from < pure.chunkSize
          /\ pure.result[j].to \notin pure.text.nl
          /\ pure.result[j].to - pure.result[j].from = pure.chunkSize

\* C15: for every body, generateCaption returns the body itself when it has
\* at most 1024 characters, and otherwise its first 1021 characters followed
\* by the three-character '...', 1024 characters in all.
C15_CaptionRule ==
    (pure.fn = "generateCaption" /\ pure.done) =>
        LET caption == pure.result
        IN  IF pure.text.len <= 1024
            THEN caption.cut = pure.text.len /\ ~caption.dots
            ELSE /\ caption.cut = 1021 /\ caption.dots
                 /\ CaptionLength(caption) = 1024

\* a body one character over the limit was truncated
C15_Witness ==
    /\ pure.fn = "generateCaption" /\ pure.done
    /\ pure.text.len = 1025
    /\ pure.result.dots

\* sendToTelegram has called sendMediaGroup for the tweet being processed and
\* bot.api.sendMediaGroup has answered
GroupSent == media > 1 /\ ~args.dryRun /\ pc \notin { "sendMediaGroup", "idle" }

AllCallsOk == \A i \in 1..Len(calls) : calls[i].ok

\* C16: for a message with m > 1 media items exactly one sendMediaGroup call is
\* made, with the first min(m, 10) items and the caption on the first item
\* only; when it succeeds the whole body is then also sent as chunked text if
\* and only if the body is longer than 1024 characters or m > 10.
C16_MediaGroup ==
    GroupSent =>
        /\ Len(SelectSeq(calls, LAMBDA c : c.method = "sendMediaGroup")) = 1
        /\ calls[1].method = "sendMediaGroup"
        /\ calls[1].items = (IF media < 10 THEN media ELSE 10)
        /\ calls[1].captioned = { 1 }
        /\ calls[1].caption = generateCaption(message)
        /\ (AllCallsOk /\ pc \in { "sendMessage", "saveState" }) =>
              IF message.len > 1024 \/ media > 10
              THEN /\ pc = "sendMessage" => phase = "supp" /\ part = Len(calls)
                   /\ pc = "saveState" => FullTextSent("supp")
              ELSE pc = "saveState" /\ Len(calls) = 1

\* eleven media items with a short body: ten sent as a group, then the text
C16_Witness ==
    /\ GroupSent /\ pc = "saveState" /\ AllCallsOk
    /\ media = 11 /\ message.len <= 1024
    /\ calls[1].items = 10
    /\ Len(calls) = 2

\* the run has issued its fetch call (answered or not)
FetchIssued ==
    \/ pc \in { "userTimeline", "singleTweet", "processTweets", "saveState" }
    \/ Sending
    \/ err.at \in { "fetch", "deliver", "saveState" }
    \/ (pc = "idle" /\ outcome \in { "no_new_tweets", "posted" })

\* C17: when the loaded state holds a user_id, run uses it and makes no
\* lookup; otherwise the id getUserId resolves is saved, with last_id as
\* loaded, before the fetch is issued, so that it is in the Gist also when
\* the fetch fails or returns nothing.
C17_ResolveAccount ==
    /\ (pc \in { "getUserId", "saveUserId" } \/ err.at \in { "getUserId", "saveUserId" })
           => state.user_id = NoUser
    /\ (pc \notin { "idle", "loadState" } /\ state.user_id # NoUser) => userId = state.user_id
    /\ FetchIssued =>
           /\ userId # NoUser /\ gist.user_id = userId
           /\ state.user_id = NoUser => userId = UserIdOf(args.username)
    /\ pc \in { "userTimeline", "singleTweet" } => gist.last_id = state.last_id

\* no id was cached: it was looked up and the fetch then failed, and the run
\* has ended with the id in the Gist
C17_Witness ==
    /\ pc = "idle" /\ err.at = "fetch"
    /\ startGist.user_id = NoUser
    /\ gist.user_id = UserIdOf(args.username)

\* no fetched tweet after the one being processed has been sent
NoLaterPostSent == \A j \in (idx + 1)..Len(tweets) : tweets[j] \notin Range(order)

\* C18: processTweets saves last_id = id of a delivered tweet before any Bot
\* API call for the next tweet is made; and once the delivery or the
\* saveState of a tweet has failed, no Bot API call for a later tweet is made
\* in that run.
C18_SaveBeforeNextPost ==
    /\ ((Sending \/ pc = "processTweets") /\ idx > 1) => gist.last_id = tweets[idx - 1]
    /\ idx >= 1 => NoLaterPostSent
    /\ err.at \in { "deliver", "saveState" } =>
          /\ pc = "idle"
          /\ idx < Len(tweets) => tweets[idx + 1] \notin Range(order)

\* the first tweet was sent and saved, a call for the second is being awaited
C18_Witness ==
    /\ Sending /\ idx = 2
    /\ order = << tweets[1] >>
    /\ gist.last_id = tweets[1]
    /\ startGist.last_id # tweets[1]

\* C19: a failure of the state store is fatal to run: when loadState fails no
\* lookup, fetch or Bot API call is made; when saveState fails, for the
\* user_id or after a delivered tweet, the run ends with the error thrown and
\* no further tweet is delivered.
C19_StateStoreFailureIsFatal ==
    /\ err.at = "loadState" =>
          /\ EndedFatal
          /\ userId = NoUser /\ tweets = <<>> /\ calls = <<>> /\ order = <<>>
          /\ gist = startGist
    /\ err.at = "saveUserId" =>
          /\ EndedFatal
          /\ tweets = <<>> /\ calls = <<>> /\ order = <<>>
          /\ gist = startGist
    /\ err.at = "saveState" =>
          /\ EndedFatal
          /\ NoLaterPostSent
          /\ gist.last_id = (IF idx = 1 THEN startGist.last_id ELSE tweets[idx - 1])

\* saveState failed after the first of two fetched tweets was sent, and the
\* run has ended
C19_Witness ==
    /\ EndedFatal /\ err.at = "saveState"
    /\ Len(tweets) = 2 /\ idx = 1
    /\ order = << tweets[1] >>

\* how many of the fetched tweets sendToTelegram has returned normally for,
\* once the run has ended
DeliveredCount == IF err.at = "saveState" THEN idx ELSE IF idx = 0 THEN 0 ELSE idx - 1
\* the last of them, or last_id as the run found it when there is none
LastDelivered == IF DeliveredCount = 0 THEN startGist.last_id ELSE tweets[DeliveredCount]

\* C20, as stated: whenever a run has ended (normally, as a rate-limit soft
\* success, or fatally) last_id is the id of the last tweet whose delivery
\* completed, or its value at the start of the run when none did.
C20_CursorIsLastDelivered == RunEnded => gist.last_id = LastDelivered

\* C20, amended: ... unless the run ended because the saveState after a
\* completed delivery failed; last_id is then one tweet behind, at the tweet
\* delivered before it (its value at the start of the run when there is none).
C20_CursorIsLastSaved ==
    RunEnded =>
        IF err.at = "saveState"
        THEN gist.last_id = (IF idx = 1 THEN startGist.last_id ELSE tweets[idx - 1])
        ELSE gist.last_id = LastDelivered

\* the second of two tweets went out but its saveState failed
C20_Witness ==
    /\ RunEnded /\ err.at = "saveState"
    /\ idx = 2 /\ order = << tweets[1], tweets[2] >>
    /\ gist.last_id = tweets[1]

\* C21, as stated: over any sequence of runs, whatever fails after it,
\* getUserId returns an id at most once: no step is a lookup returning an id
\* when one has already done so.
C21_LookupAtMostOnce ==
    [][ lookedUp => ~(pc = "getUserId" /\ pc' = "saveUserId") ]_vars

\* C21, amended: once the id getUserId returned has been saved in the Gist, no
\* later run calls getUserId; a second lookup happens only while the Gist
\* holds no user_id (the saveState that follows the lookup failed).
C21_NoLookupOnceSaved ==
    gist.user_id # NoUser =>
        /\ lookedUp
        /\ pc \notin { "getUserId", "saveUserId" }
        /\ pc \notin { "idle", "main", "loadState" } => userId = gist.user_id

\* a later run is fetching with the id an earlier run looked up and saved
C21_Witness ==
    /\ pc = "userTimeline"
    /\ startGist.user_id # NoUser /\ userId = startGist.user_id
    /\ lookedUp

\* C22: a failure other than a rate limit raised before delivery (getUserId
\* finds no user, fetchSpecificTweet finds no tweet, or a source call rejects
\* with a status other than 429) makes run throw, with no Bot API call made
\* and last_id left as the run found it.
C22_SourceFailureIsFatal ==
    (err.at \in { "getUserId", "fetch" } /\ ~err.s429) =>
        /\ EndedFatal
        /\ tweets = <<>> /\ calls = <<>> /\ order = <<>>
        /\ gist.last_id = startGist.last_id

\* a run given the id of a post that does not exist has ended, the cursor
\* being set
C22_Witness ==
    /\ EndedFatal /\ err.at = "fetch"
    /\ args.tweetId # Null /\ IndexOf(args.tweetId) > timeline
    /\ gist.last_id # Null

\* C23: a run ends rate-limited only through a source call that failed with
\* status 429; after a source response that carries quota counters, zero
\* remaining included, the run goes on: the id is saved, the fetched posts are
\* handed to processTweets from the first one, or there was nothing to post.
C23_OnlyExplicit429 ==
    /\ outcome = "rate_limited" =>
          /\ err.s429
          /\ err.at \in { "getUserId", "fetch" }
          /\ ~rateLimit.present
    /\ rateLimit.present =>
          \/ pc = "saveUserId" /\ userId = UserIdOf(args.username)
          \/ pc = "processTweets" /\ tweets # <<>> /\ idx = 1
          \/ pc = "idle" /\ outcome = "no_new_tweets" /\ tweets = <<>>

\* a timeline response with zero requests remaining, its posts being processed
C23_Witness ==
    /\ rateLimit.present /\ rateLimit.remaining = 0
    /\ pc = "processTweets" /\ args.tweetId = Null /\ Len(tweets) = 2

\* C24: in a timeline run that loaded a null last_id, none of the posts fetched
\* with the null cursor is sent to the channel (the page only seeds the cursor).
C24_NullCursorOnlySeeds ==
    (args.tweetId = Null /\ pc \notin { "idle", "main", "loadState" } /\ state.last_id = Null) =>
        /\ order = <<>>
        /\ calls = <<>>

\* C25: nothing keeps a process from starting while one is under way; a
\* post is sent twice, or last_id replaced by a smaller id, only when a process
\* was started while one was under way (C25_Witness: both do happen).
C25_NoGuardAgainstOverlap ==
    /\ \A p \in Procs : procs[p].pc = "idle" => ENABLED ProcLaunch(p)
    /\ (\E i \in AllIds : sentBy[i] = 2) => \E p \in Procs : procs[p].overlapped
    /\ (\E p \in Procs : procs[p].regressed) => \E p \in Procs : procs[p].overlapped

\* post 19 reached the channel twice, and last_id went back from 20 to 19
C25_Witness ==
    /\ sentBy[IdOf(1)] = 2 /\ sentBy[IdOf(2)] = 1
    /\ \E p \in Procs : procs[p].regressed
    /\ gist.last_id = IdOf(1)
    /\ \A p \in Procs : procs[p].pc = "idle"

\* the ways run() ends: nothing to post, every fetched tweet processed, the
\* soft return on a rate limit, an error thrown
Outcomes == { "no_new_tweets", "posted", "rate_limited", "fatal" }

\* C26: when every external call returns, a run that was started ends, in one
\* of the four outcomes; a delivery under way ends (sendToTelegram returns or
\* throws) after finitely many Bot API calls; and each chunk of a body starts
\* after the one before, none of them empty unless the body is.
C26_RunTerminates ==
    /\ (pc # "idle") ~> (pc = "idle" /\ outcome \in Outcomes)
    /\ Sending ~> ~Sending
    /\ [] ( /\ RunEnded => outcome \in Outcomes
            /\ Sending => part <= Len(Chunks)
            /\ \A i \in 1..Len(chunks) :
                  /\ chunks[i].from < chunks[i].to \/ message.len = 0
                  /\ i > 1 => chunks[i - 1].from < chunks[i].from )

\* a run that ended after a body sent in several chunks
C26_Witness ==
    /\ EndedPosted
    /\ \E i \in 1..Len(calls) : calls[i].method = "sendMessage" /\ calls[i].part = 2

\* the object of the pool a key resolves to is a photo with a url or a video
\* with a preview image
Selected(pool, key) ==
    \E i \in 1..Len(pool) :
        /\ pool[i].media_key = key
        /\ \/ pool[i].type = "photo" /\ pool[i].url # NoUrl
           \/ pool[i].type = "video" /\ pool[i].preview_image_url # NoUrl
ObjectOf(pool, key) == pool[CHOOSE i \in 1..Len(pool) : pool[i].media_key = key]

\* C27: extractMedia returns one item for each of the post's media keys that
\* resolves to a photo with a url or a video with a preview_image_url, in the
\* order of the keys, and nothing else; each item has type photo, a video's
\* item carries its preview image as url with isVideoPreview true, a photo's
\* item its url with isVideoPreview false.
C27_ExtractMedia ==
    (pure.fn = "extractMedia" /\ pure.done) =>
        LET keys == pure.tweet.media_keys
            pool == pure.mediaData
            items == pure.result
            sel == { i \in 1..Len(keys) : Selected(pool, keys[i]) }
        IN  /\ Len(items) = Cardinality(sel)
            /\ \A i \in sel :
                  LET j == Cardinality({ h \in sel : h <= i })
                      m == ObjectOf(pool, keys[i])
                  IN  /\ items[j].type = "photo"
                      /\ items[j].isVideoPreview = (m.type = "video")
                      /\ items[j].url = (IF m.type = "video" THEN m.preview_image_url
                                         ELSE m.url)

\* a video surrogate followed by a photo, the two keys in the reverse order of
\* the pool
C27_Witness ==
    /\ pure.fn = "extractMedia" /\ pure.done
    /\ Len(pure.result) = 2
    /\ pure.result[1].isVideoPreview /\ ~pure.result[2].isVideoPreview
    /\ pure.tweet.media_keys = << 2, 1 >>
    /\ pure.mediaData[1].media_key = 1

\* C28: the body built for a post is its stripped text, then the 54-character
\* video notice exactly when one of the post's selected media is a video
\* surrogate, then '\n\n🔗 Source:\n' and https://x.com/<handle>/status/<id>;
\* the last newline of the body is the one just before that url.
C28_BuildMessage ==
    (pure.fn = "buildMessage" /\ pure.done) =>
        LET keys == pure.tweet.media_keys
            pool == pure.mediaData
            body == pure.result
            t == pure.tweet.textLen
            urlLen == 14 + Len(pure.username) + 8 + Len(pure.tweet.id)
            someVideo == \E i \in 1..Len(keys) :
                            /\ Selected(pool, keys[i])
                            /\ ObjectOf(pool, keys[i]).type = "video"
            notice == IF someVideo THEN 54 ELSE 0
        IN  /\ body.len = t + notice + 13 + urlLen
            /\ body.nl = (IF someVideo THEN { t, t + 1 } ELSE {})
                            \cup { t + notice, t + notice + 1, t + notice + 12 }
            /\ SetMax(body.nl) = body.len - urlLen - 1

\* a post whose second selected media item is its only video surrogate
C28_Witness ==
    /\ pure.fn = "buildMessage" /\ pure.done
    /\ pure.tweet.textLen = 7
    /\ pure.result.len = 7 + 54 + 13 + 14 + 4 + 8 + 2
    /\ LET items == extractMedia(pure.tweet, pure.mediaData)
       IN  Len(items) = 2 /\ ~items[1].isVideoPreview /\ items[2].isVideoPreview

\* pattern occurs in str at index i
OccursAt(pattern, str, i) ==
    i + Len(pattern) - 1 <= Len(str) /\ SubSeq(str, i, i + Len(pattern) - 1) = pattern
Occurs(pattern, str) == \E i \in 1..Len(str) : OccursAt(pattern, str, i)

\* no whitespace at either end and no two whitespace characters in a row
Tidy(str) ==
    /\ str # <<>> => ~IsSpace(str[1]) /\ ~IsSpace(str[Len(str)])
    /\ \A i \in 1..(Len(str) - 1) : ~(IsSpace(str[i]) /\ IsSpace(str[i + 1]))

\* every occurrence of every listed url in the text is a whole word: it has
\* whitespace or an end of the text on either side
UrlsAreWords(tweet) ==
    \A k \in 1..Len(tweet.urls) : \A i \in 1..Len(tweet.text) :
        LET u == tweet.urls[k]
        IN  (u # <<>> /\ OccursAt(u, tweet.text, i)) =>
                /\ i = 1 \/ IsSpace(tweet.text[i - 1])
                /\ i + Len(u) > Len(tweet.text) \/ IsSpace(tweet.text[i + Len(u)])

\* C29, as stated: for every text and list of urls the result of
\* extractTweetText contains no occurrence of a listed url, has no whitespace
\* at either end and no two whitespace characters in a row.
C29_NoUrlLeft ==
    (pure.fn = "extractTweetText" /\ pure.done) =>
        /\ \A k \in 1..Len(pure.tweet.urls) :
              pure.tweet.urls[k] # <<>> => ~Occurs(pure.tweet.urls[k], pure.result)
        /\ Tidy(pure.result)

\* C29, amended: the result is always free of whitespace at its ends and of
\* runs of whitespace; it contains no occurrence of a listed url when the urls
\* have no whitespace and occur in the text as whole words only.
C29_NoUrlLeftWhenWords ==
    (pure.fn = "extractTweetText" /\ pure.done) =>
        /\ Tidy(pure.result)
        /\ UrlsAreWords(pure.tweet) =>
              \A k \in 1..Len(pure.tweet.urls) :
                  pure.tweet.urls[k] # <<>> => ~Occurs(pure.tweet.urls[k], pure.result)

\* "b\nab" with url "ab" gives "b": the url is removed and the result trimmed
C29_Witness ==
    /\ pure.fn = "extractTweetText" /\ pure.done
    /\ pure.tweet.text = << "b", "\n", "a", "b" >>
    /\ pure.tweet.urls = << << "a", "b" >> >>
    /\ pure.result = << "b" >>

\* C30: in every revision of fetchNewTweets the page comes back in ascending
\* lexicographic order of the id strings, whatever the lengths of the ids.
C30_LexicographicInEveryRevision ==
    (pure.fn = "fetchNewTweets" /\ pure.done) =>
        /\ Range(pure.result) = Range(pure.data)
        /\ Ascending(pure.result)

\* C31: in the local-file script a state failure ends the cycle: after a
\* failed saveState no further post is delivered in that cycle, and after a
\* failed loadState of an existing state no fetch is made (with the cursor
\* defaulted to null).
C31_LocalStateFailureIsFatal ==
    /\ loc.saveFailedAt # 0 => loc.delivered <= loc.saveFailedAt
    /\ (loc.loadFailed /\ loc.file # Null) => loc.pc # "fetch" /\ loc.tweets = <<>>

\* C32: without --once no cycle ends the polling: after a cycle that returned
\* early on a 429 or threw, a further cycle is eventually begun, and every
\* cycle fetches from the last_id that is in the state file.
C32_PollingGoesOn ==
    /\ [] ( (~loc.once /\ loc.result \in { "rate_limited", "error" }
                /\ loc.pc \in { "sleep", "sleep429" })
             => <> (loc.pc = "getUserId") )
    /\ [] ( (~loc.once /\ loc.pc = "fetch") => loc.lastId = loc.file )

\* the delivery of the tweet being processed is whole: a Bot API call for it
\* was accepted, the last one was, and a rejected call is a media call whose
\* text fallback went out in full
DeliveryWhole ==
    /\ calls # <<>>
    /\ calls[Len(calls)].ok
    /\ \A i \in 1..Len(calls) :
          ~calls[i].ok => calls[i].phase \in { "media", "supp" } /\ FullTextSent("fallback")

\* C33: in a run that is not a dry run, last_id in the Gist is set to a
\* tweet's id only by the saveState that follows that tweet's delivery, after
\* at least one Bot API call for the tweet was accepted and with no call for
\* it left rejected without a text fallback sent in full.
C33_CursorOnlyAfterDelivery ==
    [][ (~args.dryRun /\ gist'.last_id # gist.last_id) =>
            /\ pc = "saveState"
            /\ gist'.last_id = tweets[idx]
            /\ DeliveryWhole ]_vars

\* the first tweet's text inside sendMediaGroup was rejected, the fallback
\* went out in full and the tweet's id was saved
C33_Witness ==
    /\ pc = "processTweets" /\ idx = 2 /\ ~args.dryRun
    /\ gist.last_id = tweets[1] /\ startGist.last_id # tweets[1]
    /\ \E i \in 1..Len(calls) : ~calls[i].ok /\ calls[i].phase = "supp"
    /\ FullTextSent("fallback")

\* C34: a dry run suppresses only the Bot API calls: the fetch is made,
\* processTweets still saves the state after each tweet, and when the run has
\* gone through the fetched tweets last_id is the id of the last of them
\* although nothing was sent to the channel.
C34_DryRunStillSaves ==
    args.dryRun =>
        /\ calls = <<>> /\ order = <<>>
        /\ (pc = "processTweets" /\ idx > 1) => gist.last_id = tweets[idx - 1]
        /\ EndedPosted =>
              /\ tweets # <<>>
              /\ gist.last_id = tweets[Len(tweets)]
              /\ gist.user_id = userId

\* a dry run over two fetched tweets has ended with last_id moved to the second
C34_Witness ==
    /\ args.dryRun /\ EndedPosted
    /\ Len(tweets) = 2
    /\ gist.last_id = tweets[2] /\ startGist.last_id # tweets[2]
    /\ order = <<>>

\* C35: within the delivery of one message no chunk of the body is sent to
\* the channel more than once, also when a call is rejected after the
\* sendMediaGroup call was accepted (while sendMediaGroup sends the text).
C35_NoChunkSentTwice ==
    \A i, j \in 1..Len(calls) :
        ( /\ i < j
          /\ calls[i].method = "sendMessage" /\ calls[i].ok
          /\ calls[j].method = "sendMessage" /\ calls[j].ok )
        => calls[i].part # calls[j].part

\* C36: the account id given to the timeline fetch is always the id the
\* configured handle resolves to, also when the handle differs from the one
\* the id in the Gist was cached for.
C36_FetchForConfiguredHandle ==
    pc = "userTimeline" => userId = UserIdOf(args.username)

\* C37: chunkTelegramMessage cuts only when it has to: whenever the text
\* left from the start of a piece is no longer than the limit, that piece is
\* the last one and holds all of it (it is not cut again at a newline).
C37_CutsOnlyWhenNeeded ==
    (pure.fn = "chunkTelegramMessage" /\ pure.done) =>
        LET text == pure.text
            pieces == pure.result
        IN  \A i \in 1..Len(pieces) :
                text.len - pieces[i].from <= pure.chunkSize =>
                    i = Len(pieces) /\ pieces[i].to = text.len

C39_WritesKeepUserId ==
    [][ gist' # gist =>
            /\ pc \in { "saveUserId", "saveState" }
            /\ userId # NoUser
            /\ gist'.user_id = userId
            /\ state.user_id # NoUser => userId = state.user_id
            /\ gist.user_id # NoUser => gist'.user_id = gist.user_id
            /\ DOMAIN gist' = { "last_id", "user_id" } ]_vars

\* a run that found the id in the Gist has saved the first of its tweets, the
\* id unchanged
C39_Witness ==
    /\ pc = "processTweets" /\ idx = 2
    /\ startGist.user_id # NoUser /\ state.user_id = startGist.user_id
    /\ gist = [ last_id |-> tweets[1], user_id |-> startGist.user_id ]
    /\ startGist.last_id # tweets[1]

====
